---- MODULE Spec2Model ----
(***************************************************************************)
(* Model of xla::HloExecutionProfile                                       *)
(* (tensorflow/compiler/xla/service/hlo_execution_profile.cc).             *)
(*                                                                         *)
(* State: the map hlo_to_cycles_taken_ (instruction -> uint64 cycles), the *)
(* set profiled_computations_, and `call`, the most recent call on the     *)
(* profile together with its arguments and what it gave back.              *)
(*                                                                         *)
(* Machine integers are modelled with WordBits bits instead of 64: a       *)
(* uint64 is a value in 0 .. 2^WordBits - 1 and the conversion to int64 is *)
(* two's complement at that width.  Doubles are modelled as exact          *)
(* rationals num/den * 10^e10.  A string built by ToString is the sequence *)
(* of the pieces appended to it; the empty string is << >>.                *)
(***************************************************************************)
EXTENDS Integers, Sequences, FiniteSets

VARIABLES hlo_to_cycles_taken_, profiled_computations_, call

vars == <<hlo_to_cycles_taken_, profiled_computations_, call>>

(* ----------------------------- bounds ---------------------------------- *)
NumHlos == 3
WordBits == 4

(* ------------------------- machine integers ---------------------------- *)
RECURSIVE Pow(_, _)
Pow(b, e) == IF e = 0 THEN 1 ELSE b * Pow(b, e - 1)

Uint64Mod == Pow(2, WordBits)
Int64Max == Pow(2, WordBits - 1) - 1

\* implicit uint64 -> int64 conversion at the call append_item(item.second, ...)
ToInt64(u) == IF u > Int64Max THEN u - Uint64Mod ELSE u

(* ------------------------------ doubles -------------------------------- *)
Rat(n, d, e) == [num |-> n, den |-> d, e10 |-> e]
ToDouble(i) == Rat(i, 1, 0)
Div(a, b) == Rat(a.num * b.den, a.den * b.num, a.e10 - b.e10)
Mul(a, b) == Rat(a.num * b.num, a.den * b.den, a.e10 + b.e10)
\* a >= b, for operands with positive denominators
GE(a, b) ==
    LET m == IF a.e10 < b.e10 THEN a.e10 ELSE b.e10
    IN  a.num * b.den * Pow(10, a.e10 - m) >= b.num * a.den * Pow(10, b.e10 - m)

(* ------------------------ the graph (collaborators) -------------------- *)
Hlos == 1 .. NumHlos
Computations == {"entry", "fused"}
\* HloInstruction::parent(): the first two instructions belong to "entry"
Parent(hlo) == IF hlo <= 2 THEN "entry" ELSE "fused"
HloToString(hlo) == [fmt |-> "hlo", value |-> hlo]
HloToStringCompact(hlo) == [fmt |-> "hlo-compact", value |-> hlo]
ToCategory(hlo) == [fmt |-> "category", value |-> hlo % 2]
ComputationName(computation) == computation

(* ------------------------------ inputs --------------------------------- *)
CycleValues == {0, 3, Int64Max + 1}
TotalCyclesValues == {0 - 1, 0, 5}
\* 0.5e-9 GHz (below the minimum) and 1e-9 GHz (the minimum)
ClockRates == {Rat(5, 1, 0 - 10), Rat(1, 1, 0 - 9)}
FlopValues == <<0 - 1, 0, 4>>
ByteValues == <<0 - 1, 0, 8>>
\* outcomes of HloCostAnalysis: a status and, when it is ok, flop_count and
\* bytes_accessed per instruction
CostAnalyses ==
    { [ok |-> FALSE] }
    \cup { [ok |-> TRUE,
            flop_count |-> [h \in Hlos |-> FlopValues[((h + k) % 3) + 1]],
            bytes_accessed |-> [h \in Hlos |-> ByteValues[((h + 2 * k) % 3) + 1]]]
           : k \in 0 .. 2 }

(* --------------------------- point queries ----------------------------- *)
Find(hlo) == hlo \in DOMAIN hlo_to_cycles_taken_

GetProfileResultValue(hlo) ==
    IF ~Find(hlo) THEN 0 ELSE hlo_to_cycles_taken_[hlo]

\* a failed CHECK_GE aborts the process: nothing runs after it
Alive == call.outcome # "aborted"

Init ==
    /\ hlo_to_cycles_taken_ = << >>
    /\ profiled_computations_ = {}
    /\ call = [op |-> "none", outcome |-> "returned"]

\* variant: the count is added to the stored one (+=) instead of replacing it
AddProfileResult_Accumulate(hlo, cycles_taken) ==
    /\ Alive
    /\ hlo_to_cycles_taken_' =
           [h \in DOMAIN hlo_to_cycles_taken_ \cup {hlo} |->
               IF h = hlo
               THEN (GetProfileResultValue(hlo) + cycles_taken) % Uint64Mod
               ELSE hlo_to_cycles_taken_[h]]
    /\ profiled_computations_' = profiled_computations_ \cup {Parent(hlo)}
    /\ call' = [op |-> "AddProfileResult", outcome |-> "returned", hlo |-> hlo,
                cycles_taken |-> cycles_taken,
                inserted |-> ~Find(hlo),
                prev |-> GetProfileResultValue(hlo)]

\* variant: the parent computation is not recorded
AddProfileResult_NoInsert(hlo, cycles_taken) ==
    /\ Alive
    /\ hlo_to_cycles_taken_' =
           [h \in DOMAIN hlo_to_cycles_taken_ \cup {hlo} |->
               IF h = hlo THEN cycles_taken ELSE hlo_to_cycles_taken_[h]]
    /\ profiled_computations_' = profiled_computations_
    /\ call' = [op |-> "AddProfileResult", outcome |-> "returned", hlo |-> hlo,
                cycles_taken |-> cycles_taken,
                inserted |-> ~Find(hlo),
                prev |-> GetProfileResultValue(hlo)]

AddProfileResult(hlo, cycles_taken) ==
    /\ Alive
    /\ hlo_to_cycles_taken_' =
           [h \in DOMAIN hlo_to_cycles_taken_ \cup {hlo} |->
               IF h = hlo THEN cycles_taken ELSE hlo_to_cycles_taken_[h]]
    /\ profiled_computations_' = profiled_computations_ \cup {Parent(hlo)}
    /\ call' = [op |-> "AddProfileResult", outcome |-> "returned", hlo |-> hlo,
                cycles_taken |-> cycles_taken,
                inserted |-> ~Find(hlo),
                prev |-> GetProfileResultValue(hlo)]

\* variant: the lookup uses operator[] and so inserts an absent key
GetProfileResult_Inserting(hlo) ==
    /\ Alive
    /\ call' = [op |-> "GetProfileResult", outcome |-> "returned", hlo |-> hlo,
                result |-> GetProfileResultValue(hlo)]
    /\ hlo_to_cycles_taken_' =
           [h \in DOMAIN hlo_to_cycles_taken_ \cup {hlo} |->
               IF h \in DOMAIN hlo_to_cycles_taken_
               THEN hlo_to_cycles_taken_[h] ELSE 0]
    /\ UNCHANGED profiled_computations_

GetProfileResult(hlo) ==
    /\ Alive
    /\ call' = [op |-> "GetProfileResult", outcome |-> "returned", hlo |-> hlo,
                result |-> GetProfileResultValue(hlo)]
    /\ UNCHANGED <<hlo_to_cycles_taken_, profiled_computations_>>

(* ------------------------------ ToString -------------------------------- *)
nullptr == 0

\* variant: the parent of an item is not compared with the computation
FilterItems_AllComputations(computation) ==
    { [first |-> h, second |-> hlo_to_cycles_taken_[h]] :
        h \in DOMAIN hlo_to_cycles_taken_ }

\* the loop over hlo_to_cycles_taken_ that keeps the HLOs of `computation`
FilterItems(computation) ==
    { [first |-> h, second |-> hlo_to_cycles_taken_[h]] :
        h \in { x \in DOMAIN hlo_to_cycles_taken_ : Parent(x) = computation } }

custom_less(lhs, rhs) == lhs.second > rhs.second

\* std::sort(items.begin(), items.end(), custom_less): any arrangement of
\* the items in which no later element is custom_less than an earlier one
\* (the map's iteration order and the order of ties are unspecified)
SortedItems(S) ==
    { s \in [1 .. Cardinality(S) -> S] :
        /\ \A i, j \in 1 .. Cardinality(S) : i # j => s[i] # s[j]
        /\ \A i, j \in 1 .. Cardinality(S) : i < j => ~custom_less(s[j], s[i]) }

cycles_to_microseconds(cycles, clock_rate_ghz) ==
    Div(Div(cycles, clock_rate_ghz), Rat(1, 1, 3))

\* a piece of text that is a string literal of the source
Literal(text) == [fmt |-> "literal", value |-> text]
HumanReadableNumBytes(n) == [fmt |-> "bytes", value |-> n]
HumanReadableNumFlops(flops, nsecs) ==
    [fmt |-> "flops", flops |-> flops, nsecs |-> nsecs]
HumanReadableElapsedTime(seconds) == [fmt |-> "elapsed", seconds |-> seconds]

\* variant: the guard forgets bytes_accessed < 0
BandwidthFields_CyclesOnly(cycles, bytes_accessed, nsecs) ==
    IF cycles <= 0
    THEN [bytes_per_sec |-> Literal("<unknown>"),
          bytes_per_cycle |-> Literal("<unknown>")]
    ELSE [bytes_per_sec |->
              HumanReadableNumBytes(
                  Div(ToDouble(bytes_accessed), Div(nsecs, Rat(1, 1, 9)))),
          bytes_per_cycle |-> HumanReadableNumBytes(bytes_accessed \div cycles)]

\* bytes_per_sec and bytes_per_cycle of append_item
BandwidthFields(cycles, bytes_accessed, nsecs) ==
    IF cycles <= 0 \/ bytes_accessed < 0
    THEN [bytes_per_sec |-> Literal("<unknown>"),
          bytes_per_cycle |-> Literal("<unknown>")]
    ELSE [bytes_per_sec |->
              HumanReadableNumBytes(
                  Div(ToDouble(bytes_accessed), Div(nsecs, Rat(1, 1, 9)))),
          bytes_per_cycle |-> HumanReadableNumBytes(bytes_accessed \div cycles)]

\* variant: the fraction is not scaled to a percentage
CyclesPercent_Fraction(cycles, total_cycles) ==
    IF total_cycles > 0
    THEN Div(ToDouble(cycles), ToDouble(total_cycles))
    ELSE ToDouble(0)

\* cycles_percent of append_item
CyclesPercent(cycles, total_cycles) ==
    IF total_cycles > 0
    THEN Mul(Div(ToDouble(cycles), ToDouble(total_cycles)), Rat(1, 1, 2))
    ELSE ToDouble(0)

\* one formatted line; `cycles` is the int64 parameter of the lambda
append_item(cycles, flops, bytes_accessed, name, total_cycles, clock_rate_ghz) ==
    LET nsecs == Div(ToDouble(cycles), clock_rate_ghz)
        bw == BandwidthFields(cycles, bytes_accessed, nsecs)
    IN  [kind |-> "row",
         cycles |-> cycles,
         cycles_percent |-> CyclesPercent(cycles, total_cycles),
         usec |-> cycles_to_microseconds(ToDouble(cycles), clock_rate_ghz),
         flops |-> IF flops <= 0 THEN Literal("<none>")
                   ELSE HumanReadableNumFlops(flops, nsecs),
         bytes_per_sec |-> bw.bytes_per_sec,
         bytes_per_cycle |-> bw.bytes_per_cycle,
         name |-> name]

Header(computation, total_cycles, clock_rate_ghz) ==
    [kind |-> "header",
     name |-> ComputationName(computation),
     elapsed |-> HumanReadableElapsedTime(
                     Div(Div(ToDouble(total_cycles), clock_rate_ghz),
                         Rat(1, 1, 9)))]

\* the body of the loop that prints one profiled instruction
ItemRow(item, cost_analysis, total_cycles, clock_rate_ghz) ==
    LET hlo == item.first
        flops == IF hlo = nullptr THEN 0 - 1 ELSE cost_analysis.flop_count[hlo]
        bytes_accessed ==
            IF hlo = nullptr THEN 0 - 1 ELSE cost_analysis.bytes_accessed[hlo]
        display == IF hlo = nullptr THEN Literal("<none>") ELSE HloToString(hlo)
    IN  << [kind |-> "newline-tab"],
           append_item(ToInt64(item.second), flops, bytes_accessed, display,
                       total_cycles, clock_rate_ghz) >>

RECURSIVE ItemRows(_, _, _, _)
ItemRows(items, cost_analysis, total_cycles, clock_rate_ghz) ==
    IF items = << >> THEN << >>
    ELSE ItemRow(Head(items), cost_analysis, total_cycles, clock_rate_ghz)
         \o ItemRows(Tail(items), cost_analysis, total_cycles, clock_rate_ghz)

\* the MetricTableReport filled from the items and rendered by MakeReport
CategoryTable(items, total_cycles, clock_rate_ghz) ==
    [kind |-> "table",
     metric_name |-> "microseconds",
     entry_name |-> "ops",
     show_category_table |-> TRUE,
     entries |->
         [i \in 1 .. Len(items) |->
             [text |-> HloToString(items[i].first),
              short_text |-> HloToStringCompact(items[i].first),
              category_text |-> ToCategory(items[i].first),
              metric |-> cycles_to_microseconds(ToDouble(items[i].second),
                                                clock_rate_ghz)]],
     expected_metric_sum |->
         cycles_to_microseconds(ToDouble(total_cycles), clock_rate_ghz)]

ZeroCyclesMarker ==
    [kind |-> "marker", text |-> Literal("****** 0 total cycles ******\n")]

\* variant: the marker is written for negative totals only
ReportTail_NegativeOnly(items, total_cycles, clock_rate_ghz) ==
    IF total_cycles < 0
    THEN << ZeroCyclesMarker >>
    ELSE << CategoryTable(items, total_cycles, clock_rate_ghz) >>

\* what follows the flat list
ReportTail(items, total_cycles, clock_rate_ghz) ==
    IF total_cycles <= 0
    THEN << ZeroCyclesMarker >>
    ELSE << CategoryTable(items, total_cycles, clock_rate_ghz) >>

MinClockRateGhz == Rat(1, 1, 0 - 9)

\* variant: the clock rate is checked against 1e-10 instead of 1e-9
ClockRateCheck_TenthOfMinimum(clock_rate_ghz) ==
    GE(clock_rate_ghz, Rat(1, 1, 0 - 10))

\* CHECK_GE(clock_rate_ghz, 1e-9)
ClockRateCheck(clock_rate_ghz) == GE(clock_rate_ghz, MinClockRateGhz)

\* the text built once the analysis has succeeded and the CHECK has passed
Report(computation, clock_rate_ghz, cost_analysis, total_cycles, items) ==
    << Header(computation, total_cycles, clock_rate_ghz),
       append_item(total_cycles, 0 - 1, 0 - 1, Literal("[total]"), total_cycles,
                   clock_rate_ghz) >>
    \o ItemRows(items, cost_analysis, total_cycles, clock_rate_ghz)
    \o ReportTail(items, total_cycles, clock_rate_ghz)

\* variant: the failure is noticed after the header has been written
ToStringResult_HeaderOnFailure(computation, clock_rate_ghz, cost_analysis, total_cycles, items) ==
    IF ~cost_analysis.ok
    THEN [outcome |-> "returned",
          result |-> << Header(computation, total_cycles, clock_rate_ghz) >>]
    ELSE IF ~ClockRateCheck(clock_rate_ghz)
    THEN [outcome |-> "aborted", result |-> << >>]
    ELSE [outcome |-> "returned",
          result |-> Report(computation, clock_rate_ghz, cost_analysis,
                            total_cycles, items)]

\* the outcome of one call, `items` being the sorted vector
ToStringResult(computation, clock_rate_ghz, cost_analysis, total_cycles, items) ==
    IF ~cost_analysis.ok
    THEN [outcome |-> "returned", result |-> << >>]
    ELSE IF ~ClockRateCheck(clock_rate_ghz)
    THEN [outcome |-> "aborted", result |-> << >>]
    ELSE [outcome |-> "returned",
          result |-> Report(computation, clock_rate_ghz, cost_analysis,
                            total_cycles, items)]

ToString(computation, clock_rate_ghz, cost_analysis, total_cycles) ==
    /\ Alive
    /\ \E items \in SortedItems(FilterItems(computation)) :
           LET r == ToStringResult(computation, clock_rate_ghz, cost_analysis,
                                   total_cycles, items)
           IN  call' = [op |-> "ToString", outcome |-> r.outcome,
                        computation |-> computation,
                        clock_rate_ghz |-> clock_rate_ghz,
                        cost_analysis |-> cost_analysis,
                        total_cycles |-> total_cycles,
                        result |-> r.result]
    /\ UNCHANGED <<hlo_to_cycles_taken_, profiled_computations_>>

Next ==
    \/ \E hlo \in Hlos, cycles_taken \in CycleValues :
           AddProfileResult(hlo, cycles_taken)
    \/ \E hlo \in Hlos : GetProfileResult(hlo)
    \/ \E computation \in Computations, clock_rate_ghz \in ClockRates,
          cost_analysis \in CostAnalyses, total_cycles \in TotalCyclesValues :
           ToString(computation, clock_rate_ghz, cost_analysis, total_cycles)

Spec == Init /\ [][Next]_vars

(* ======================= properties of the profile ====================== *)
ReturnedToString == call.op = "ToString" /\ call.outcome = "returned"
ReportedToString == ReturnedToString /\ call.cost_analysis.ok

\* the formatted lines of a text, in order
Rows(text) == SelectSeq(text, LAMBDA p : p.kind = "row")
IsTotalRow(r) == r.name.fmt = "literal" /\ r.name.value = "[total]"
IsHloRow(r, hlo) == r.name.fmt = "hlo" /\ r.name.value = hlo
RowsOf(text, hlo) == { i \in 1 .. Len(Rows(text)) : IsHloRow(Rows(text)[i], hlo) }
TotalRows(text) == { i \in 1 .. Len(Rows(text)) : IsTotalRow(Rows(text)[i]) }
Kinds(text, kind) == { i \in 1 .. Len(text) : text[i].kind = kind }
InComputation(hlo, computation) ==
    hlo \in DOMAIN hlo_to_cycles_taken_ /\ Parent(hlo) = computation
IsUnknown(field) == field.fmt = "literal" /\ field.value = "<unknown>"

\* equality and sum of the modelled doubles, as numbers
RatEq(a, b) ==
    LET m == IF a.e10 < b.e10 THEN a.e10 ELSE b.e10
    IN  a.num * b.den * Pow(10, a.e10 - m) = b.num * a.den * Pow(10, b.e10 - m)
RatAdd(a, b) ==
    LET m == IF a.e10 < b.e10 THEN a.e10 ELSE b.e10
    IN  Rat(a.num * b.den * Pow(10, a.e10 - m) + b.num * a.den * Pow(10, b.e10 - m),
            a.den * b.den, m)
RECURSIVE SumPercent(_)
SumPercent(rows) ==
    IF rows = << >> THEN ToDouble(0)
    ELSE RatAdd(Head(rows).cycles_percent, SumPercent(Tail(rows)))
RECURSIVE SumCycles(_)
SumCycles(rows) ==
    IF rows = << >> THEN 0 ELSE Head(rows).cycles + SumCycles(Tail(rows))
\* the lines after the "[total]" line
ItemRowsOf(text) == Tail(Rows(text))

(* C1: GetProfileResult(n) is 0 until n is passed to AddProfileResult, an  *)
(* AddProfileResult(n, c) makes it exactly c (the last write wins, nothing *)
(* is accumulated), and no other step, in particular no add for another    *)
(* node, changes it.                                                       *)
C1_LastWriteWins ==
    /\ \A n \in Hlos : GetProfileResultValue(n) = 0
    /\ [][\A n \in Hlos :
            GetProfileResultValue(n)' =
                IF call'.op = "AddProfileResult" /\ call'.hlo = n
                THEN call'.cycles_taken
                ELSE GetProfileResultValue(n)]_vars

\* a node is added again with another, smaller count while another node has
\* never been added
C1_Witness ==
    /\ call.op = "AddProfileResult"
    /\ ~call.inserted
    /\ call.prev > call.cycles_taken
    /\ call.cycles_taken > 0
    /\ GetProfileResultValue(call.hlo) = call.cycles_taken
    /\ \E n \in Hlos : n \notin DOMAIN hlo_to_cycles_taken_

(* C2: when cost analysis succeeds, the flat report of ToString(S) has     *)
(* exactly one "[total]" line, which is the first line, exactly one line   *)
(* for each stored node whose parent is S, and no other line.              *)
C2_OneRowPerNodeOfComputation ==
    ReportedToString =>
        /\ Len(call.result) >= 2
        /\ call.result[2].kind = "row"
        /\ IsTotalRow(call.result[2])
        /\ Cardinality(TotalRows(call.result)) = 1
        /\ \A h \in Hlos :
               Cardinality(RowsOf(call.result, h)) =
                   IF InComputation(h, call.computation) THEN 1 ELSE 0
        /\ Len(Rows(call.result)) =
               1 + Cardinality({ h \in Hlos : InComputation(h, call.computation) })

\* a report over a computation that has a node stored with 0 cycles, while
\* a node of another computation is stored too
C2_Witness ==
    /\ ReportedToString
    /\ \E h \in Hlos :
           InComputation(h, call.computation) /\ hlo_to_cycles_taken_[h] = 0
    /\ \E h \in DOMAIN hlo_to_cycles_taken_ : Parent(h) # call.computation
    /\ Len(Rows(call.result)) >= 3

(* C3: in the output of ToString the cycle counts printed in the lines     *)
(* after the "[total]" line are in non-increasing order, for all stored    *)
(* uint64 cycle counts.                                                    *)
C3_PrintedCyclesNonIncreasing ==
    ReportedToString =>
        \A i, j \in 1 .. Len(ItemRowsOf(call.result)) :
            i < j => ItemRowsOf(call.result)[i].cycles
                         >= ItemRowsOf(call.result)[j].cycles

(* C4: when cost analysis succeeds and total_cycles <= 0 the text ends     *)
(* with the zero-cycles marker and has no categorized table; when          *)
(* total_cycles > 0 it has no marker and ends with one table that has      *)
(* exactly one entry per node of the computation, the entry's metric being *)
(* the node's microseconds, finalized against the total's microseconds.    *)
C4_MarkerOrTable ==
    ReportedToString =>
        LET text == call.result
            last == text[Len(text)]
            nodes == { h \in Hlos : InComputation(h, call.computation) }
        IN  IF call.total_cycles <= 0
            THEN /\ last = ZeroCyclesMarker
                 /\ Kinds(text, "table") = {}
                 /\ Kinds(text, "marker") = {Len(text)}
            ELSE /\ Kinds(text, "marker") = {}
                 /\ Kinds(text, "table") = {Len(text)}
                 /\ Len(last.entries) = Cardinality(nodes)
                 /\ \A h \in nodes :
                        \E i \in 1 .. Len(last.entries) :
                            /\ last.entries[i].text = HloToString(h)
                            /\ RatEq(last.entries[i].metric,
                                     Div(Div(ToDouble(hlo_to_cycles_taken_[h]),
                                             call.clock_rate_ghz),
                                         ToDouble(1000)))
                 /\ RatEq(last.expected_metric_sum,
                          Div(Div(ToDouble(call.total_cycles),
                                  call.clock_rate_ghz),
                              ToDouble(1000)))

\* a report with total_cycles = 0 over a computation with two stored nodes
C4_Witness ==
    /\ ReportedToString
    /\ call.total_cycles = 0
    /\ Cardinality({ h \in Hlos : InComputation(h, call.computation) }) = 2
    /\ call.result[Len(call.result)] = ZeroCyclesMarker

(* C5: a ToString whose cost analysis fails returns the empty string,      *)
(* whatever the store and total_cycles are; a ToString that returns after  *)
(* a successful analysis returns a text that is not empty: it starts with  *)
(* the header and the "[total]" line.                                      *)
C5_EmptyIffAnalysisFails ==
    ReturnedToString =>
        IF ~call.cost_analysis.ok
        THEN call.result = << >>
        ELSE /\ call.result # << >>
             /\ Len(call.result) >= 2
             /\ call.result[1].kind = "header"
             /\ call.result[2].kind = "row"
             /\ IsTotalRow(call.result[2])

\* a failed analysis over a computation with stored nodes and a positive
\* total
C5_Witness ==
    /\ ReturnedToString
    /\ ~call.cost_analysis.ok
    /\ call.total_cycles > 0
    /\ \E h \in Hlos : InComputation(h, call.computation)
    /\ call.result = << >>

(* C6: profiled_computations_ is exactly the set of parents of the keys of *)
(* hlo_to_cycles_taken_: after AddProfileResult(hlo, c) it contains hlo's  *)
(* parent, it contains nothing else, and no step removes a member.         *)
C6_TouchedSet ==
    /\ [](/\ profiled_computations_ =
                { Parent(h) : h \in DOMAIN hlo_to_cycles_taken_ }
          /\ (call.op = "AddProfileResult" =>
                Parent(call.hlo) \in profiled_computations_))
    /\ [][profiled_computations_ \subseteq profiled_computations_']_vars

\* a later query finds the parent of the only added node still in the set,
\* and the other computation not in it
C6_Witness ==
    /\ call.op = "GetProfileResult"
    /\ profiled_computations_ = {"fused"}
    /\ hlo_to_cycles_taken_ # << >>

(* C7: in every line of ToString both bandwidth fields are "<unknown>"     *)
(* exactly when the line's cycles <= 0 or its bytes_accessed < 0, and both *)
(* are computed otherwise; the "[total]" line always shows "<unknown>".    *)
C7_BandwidthSentinels ==
    ReportedToString =>
        \A i \in 1 .. Len(Rows(call.result)) :
            LET r == Rows(call.result)[i]
                bytes_accessed ==
                    IF IsTotalRow(r) THEN 0 - 1
                    ELSE call.cost_analysis.bytes_accessed[r.name.value]
                unknown == r.cycles <= 0 \/ bytes_accessed < 0
            IN  /\ IsUnknown(r.bytes_per_sec) <=> unknown
                /\ IsUnknown(r.bytes_per_cycle) <=> unknown
                /\ ~unknown => /\ r.bytes_per_sec.fmt = "bytes"
                               /\ r.bytes_per_cycle.fmt = "bytes"
                /\ IsTotalRow(r) => unknown

\* one report with a line of positive cycles and bytes_accessed = -1 and a
\* line whose bandwidth is computed
C7_Witness ==
    /\ ReportedToString
    /\ call.total_cycles > 0
    /\ \E i \in 1 .. Len(Rows(call.result)) :
           LET r == Rows(call.result)[i]
           IN  /\ ~IsTotalRow(r)
               /\ r.cycles > 0
               /\ call.cost_analysis.bytes_accessed[r.name.value] = 0 - 1
               /\ IsUnknown(r.bytes_per_sec)
    /\ \E i \in 1 .. Len(Rows(call.result)) :
           ~IsUnknown(Rows(call.result)[i].bytes_per_cycle)

\* each line's percentage is cycles / total_cycles * 100, or 0 without a
\* positive total
PercentOfEachRow ==
    \A i \in 1 .. Len(Rows(call.result)) :
        LET r == Rows(call.result)[i]
        IN  IF call.total_cycles > 0
            THEN /\ RatEq(r.cycles_percent,
                          Rat(r.cycles * 100, call.total_cycles, 0))
                 /\ IsTotalRow(r) => RatEq(r.cycles_percent, ToDouble(100))
            ELSE RatEq(r.cycles_percent, ToDouble(0))

(* C8 as stated: whenever total_cycles > 0 each line's cycles_percent is   *)
(* cycles / total_cycles * 100 and the percentages of the lines after      *)
(* "[total]" sum to at most 100, for any store and any total; whenever     *)
(* total_cycles <= 0 every percentage is 0.                                *)
C8_PercentSumAtMost100 ==
    ReportedToString =>
        /\ PercentOfEachRow
        /\ call.total_cycles > 0 =>
               GE(ToDouble(100), SumPercent(ItemRowsOf(call.result)))

(* C8 amended: the percentages are as stated, and the percentages of the   *)
(* lines after "[total]" sum to at most 100 exactly when the cycle counts  *)
(* printed in those lines sum to at most total_cycles.                     *)
C8_PercentSumBoundedByTotal ==
    ReportedToString =>
        /\ PercentOfEachRow
        /\ call.total_cycles > 0 =>
               (GE(ToDouble(100), SumPercent(ItemRowsOf(call.result)))
                   <=> SumCycles(ItemRowsOf(call.result)) <= call.total_cycles)

\* two lines with positive cycles that sum to no more than the total
C8_Witness ==
    /\ ReportedToString
    /\ call.total_cycles > 0
    /\ Len(ItemRowsOf(call.result)) = 2
    /\ ItemRowsOf(call.result)[1].cycles > 0
    /\ SumCycles(ItemRowsOf(call.result)) <= call.total_cycles
    /\ GE(ToDouble(100), SumPercent(ItemRowsOf(call.result)))

(* C9 as stated: every ToString with a clock rate below 1e-9 GHz aborts    *)
(* and returns nothing, whatever the cost analysis gives.                  *)
C9_LowClockAlwaysAborts ==
    (call.op = "ToString" /\ ~GE(call.clock_rate_ghz, Rat(1, 1, 0 - 9)))
        => call.outcome = "aborted"

(* C9 amended: a ToString with a clock rate below 1e-9 GHz aborts when the *)
(* cost analysis succeeds; when the analysis fails it returns the empty    *)
(* string before the clock rate is looked at.  No such call returns a      *)
(* text that is not empty, and no call with a clock rate of at least       *)
(* 1e-9 GHz aborts.                                                        *)
C9_LowClockAbortsAfterAnalysis ==
    call.op = "ToString" =>
        IF ~GE(call.clock_rate_ghz, Rat(1, 1, 0 - 9))
        THEN IF call.cost_analysis.ok
             THEN call.outcome = "aborted"
             ELSE call.outcome = "returned" /\ call.result = << >>
        ELSE call.outcome = "returned"

\* an aborted call over a store that is not empty
C9_Witness ==
    /\ call.op = "ToString"
    /\ call.outcome = "aborted"
    /\ call.cost_analysis.ok
    /\ ~GE(call.clock_rate_ghz, Rat(1, 1, 0 - 9))
    /\ hlo_to_cycles_taken_ # << >>

\* the set of lines of a text
RowSet(text) == { Rows(text)[i] : i \in 1 .. Len(Rows(text)) }
SameArguments(c, d) ==
    /\ c.computation = d.computation
    /\ c.clock_rate_ghz = d.clock_rate_ghz
    /\ c.cost_analysis = d.cost_analysis
    /\ c.total_cycles = d.total_cycles

(* C10: GetProfileResult and ToString leave hlo_to_cycles_taken_ and       *)
(* profiled_computations_ as they are, whatever they return (a lookup of   *)
(* an absent node does not insert it), so every key stays queryable with   *)
(* its value; and a ToString that follows a ToString with the same         *)
(* arguments reports the same lines.                                       *)
C10_QueriesChangeNothing ==
    /\ [][call'.op \in {"GetProfileResult", "ToString"} =>
            /\ hlo_to_cycles_taken_' = hlo_to_cycles_taken_
            /\ profiled_computations_' = profiled_computations_
            /\ \A n \in Hlos :
                   GetProfileResultValue(n)' = GetProfileResultValue(n)]_vars
    /\ [][(/\ call.op = "ToString" /\ call.outcome = "returned"
           /\ call'.op = "ToString" /\ call'.outcome = "returned"
           /\ SameArguments(call, call'))
            => /\ RowSet(call.result) = RowSet(call'.result)
               /\ Len(call.result) = Len(call'.result)]_vars

\* a lookup of an absent node returned 0 and the node is still absent,
\* while another node is stored
C10_Witness ==
    /\ call.op = "GetProfileResult"
    /\ call.result = 0
    /\ call.hlo \notin DOMAIN hlo_to_cycles_taken_
    /\ hlo_to_cycles_taken_ # << >>
====
